---- MODULE Spec2Model ----
(***************************************************************************)
(* GaussianDiffusion (src/raccoon_diffusion/diffusion.py): the noise       *)
(* schedule, the forward operator, the training loss and the two reverse   *)
(* samplers, as a state machine over the process-wide random generator.    *)
(*                                                                         *)
(* Numbers: a float is a record [c, v]: c = "num" with v a fixed-point     *)
(* integer (value v / UNIT), c = "inf" with v the sign, c = "nan", or      *)
(* c = "tiny" with v a nonzero fixed-point integer: the value v / UNIT in  *)
(* a unit so small in float32 that a tiny value added to a nonzero num     *)
(* leaves the num, the product of two tiny values underflows to 0 and a    *)
(* nonzero num divided by a tiny value overflows.                          *)
(* Tensors: a batch tensor of shape (B, C, H, W) is the sequence of its B  *)
(* batch entries (C = H = W = 1); a broadcast along the batch axis is a    *)
(* broadcast along any axis.  A 0-dim tensor is a float.                   *)
(***************************************************************************)
EXTENDS Integers, Sequences, FiniteSets, TLC

\* ------------------------------------------------------------- bounds
UNIT == 100          \* fixed-point resolution: 1.0 is UNIT
MaxT == 4            \* largest schedule length explored
MaxTTwo == 3         \* largest schedule length explored with two threads
MaxB == 2            \* largest batch size explored
MaxSeed == 1         \* seeds are 0..MaxSeed, or None
RngMod == 3          \* number of states of the random generator

NoSeed == -1         \* seed=None: the optional seed left out

\* -------------------------------------------------------------- floats
F(n) == [c |-> "num", v |-> n]
NaN == [c |-> "nan", v |-> 0]
Inf(s) == [c |-> "inf", v |-> s]
One == F(UNIT)
Zero == F(0)
Tiny(n) == IF n = 0 THEN Zero ELSE [c |-> "tiny", v |-> n]

Abs(n) == IF n < 0 THEN -n ELSE n
Sgn(n) == IF n < 0 THEN -1 ELSE IF n = 0 THEN 0 ELSE 1
\* round toward zero
Trunc(a, b) == Sgn(a) * Sgn(b) * (Abs(a) \div Abs(b))

FNeg(a) == IF a.c = "nan" THEN NaN ELSE [c |-> a.c, v |-> -a.v]

FAdd(a, b) ==
  IF a.c = "nan" \/ b.c = "nan" THEN NaN
  ELSE IF a.c = "inf" /\ b.c = "inf" THEN (IF a.v = b.v THEN a ELSE NaN)
  ELSE IF a.c = "inf" THEN a
  ELSE IF b.c = "inf" THEN b
  ELSE IF a.c = "tiny" /\ b.c = "tiny" THEN Tiny(a.v + b.v)
  ELSE IF a.c = "tiny" THEN (IF b.v = 0 THEN a ELSE b)
  ELSE IF b.c = "tiny" THEN (IF a.v = 0 THEN b ELSE a)
  ELSE F(a.v + b.v)

FSub(a, b) == FAdd(a, FNeg(b))

FMul(a, b) ==
  IF a.c = "nan" \/ b.c = "nan" THEN NaN
  ELSE IF a.c = "inf" \/ b.c = "inf"
       THEN (IF Sgn(a.v) * Sgn(b.v) = 0 THEN NaN ELSE Inf(Sgn(a.v) * Sgn(b.v)))
  ELSE IF a.c = "tiny" /\ b.c = "tiny" THEN Zero
  ELSE IF a.c = "tiny" \/ b.c = "tiny" THEN Tiny(Trunc(a.v * b.v, UNIT))
  ELSE F(Trunc(a.v * b.v, UNIT))

FDiv(a, b) ==
  IF a.c = "nan" \/ b.c = "nan" THEN NaN
  ELSE IF a.c = "inf" /\ b.c = "inf" THEN NaN
  ELSE IF a.c = "inf" THEN Inf(IF b.v < 0 THEN -a.v ELSE a.v)
  ELSE IF b.c = "inf" THEN Zero
  ELSE IF b.v = 0 THEN (IF a.v = 0 THEN NaN ELSE Inf(Sgn(a.v)))
  ELSE IF a.c = "tiny" /\ b.c = "num" THEN Tiny(Trunc(a.v * UNIT, b.v))
  ELSE IF a.c = "num" /\ b.c = "tiny"
       THEN (IF a.v = 0 THEN Zero ELSE Inf(Sgn(a.v) * Sgn(b.v)))
  ELSE F(Trunc(a.v * UNIT, b.v))

\* the integer square root of n >= 0, found by bisection of lo..hi
RECURSIVE SqrtBetween(_, _, _)
SqrtBetween(n, lo, hi) ==
  IF lo = hi THEN lo
  ELSE LET mid == (lo + hi + 1) \div 2
       IN  IF mid <= n \div mid THEN SqrtBetween(n, mid, hi)
           ELSE SqrtBetween(n, lo, mid - 1)
ISqrt(n) == SqrtBetween(n, 0, n)

FSqrt(a) ==
  IF a.c = "nan" THEN NaN
  ELSE IF a.v < 0 THEN NaN
  ELSE IF a.c = "inf" THEN a
  ELSE IF a.c = "tiny" THEN Zero   \* below the fixed-point resolution
  ELSE F(ISqrt(a.v * UNIT))

\* torch.clamp(a, lo, hi) on one element, lo and hi fixed-point integers
FClamp(a, lo, hi) ==
  IF a.c = "nan" THEN NaN
  ELSE IF a.c = "inf" THEN (IF a.v < 0 THEN F(lo) ELSE F(hi))
  ELSE IF a.c = "tiny" THEN (IF lo > 0 THEN F(lo) ELSE IF hi < 0 THEN F(hi) ELSE a)
  ELSE IF a.v < lo THEN F(lo)
  ELSE IF a.v > hi THEN F(hi)
  ELSE a

\* ------------------------------------------------------------- tensors
\* two shapes combine when they are equal or one of them is 1
Broadcastable(m, n) == m = n \/ m = 1 \/ n = 1
BroadcastLen(m, n) == IF m = 1 THEN n ELSE m
At(a, i) == IF Len(a) = 1 THEN a[1] ELSE a[i]

TAdd(a, b) == [i \in 1..BroadcastLen(Len(a), Len(b)) |-> FAdd(At(a, i), At(b, i))]
TSub(a, b) == [i \in 1..BroadcastLen(Len(a), Len(b)) |-> FSub(At(a, i), At(b, i))]
TMul(a, b) == [i \in 1..BroadcastLen(Len(a), Len(b)) |-> FMul(At(a, i), At(b, i))]
TDiv(a, b) == [i \in 1..BroadcastLen(Len(a), Len(b)) |-> FDiv(At(a, i), At(b, i))]
TSqrt(a) == [i \in 1..Len(a) |-> FSqrt(a[i])]
\* a 0-dim tensor (a float) against a tensor
SMul(s, a) == [i \in 1..Len(a) |-> FMul(s, a[i])]
SRSub(s, a) == [i \in 1..Len(a) |-> FSub(s, a[i])]
SRDiv(s, a) == [i \in 1..Len(a) |-> FDiv(s, a[i])]
SRDivT(a, s) == [i \in 1..Len(a) |-> FDiv(a[i], s)]
\* a[t] for a batch of indices t (0-based)
Gather(a, t) == [i \in 1..Len(t) |-> a[t[i] + 1]]
Full(n, val) == [i \in 1..n |-> val]

\* ---------------------------------------------------- random generator
\* The process-wide generator of torch: manual_seed sets its state from the
\* seed alone; each element drawn is a function of the state and advances it.
RngStates == 0..(RngMod - 1)
manual_seed(seed) == seed % RngMod
\* standard-normal values: symmetric about 0, some beyond 1 in magnitude
Gauss(s) == F((3 * (2 * s - (RngMod - 1)) * UNIT) \div 4)
Advance(r, n) == (r + n) % RngMod
\* torch.randn(shape) / torch.randn_like(x): n elements from state r
randn(n, r) == [val |-> [i \in 1..n |-> Gauss(Advance(r, i - 1))],
                rng |-> Advance(r, n)]

\* ------------------------------------------------------------ schedule
\* torch.linspace(start, end, steps): start + (i - 1) * (end - start) / (steps - 1)
linspace(start, end, steps) ==
  [i \in 1..steps |->
     IF steps = 1 THEN start
     ELSE FAdd(start, FDiv(FMul(F((i - 1) * UNIT), FSub(end, start)),
                           F((steps - 1) * UNIT)))]

RECURSIVE cumprod(_)
cumprod(a) ==
  IF Len(a) = 0 THEN << >>
  ELSE IF Len(a) = 1 THEN a
  ELSE LET p == cumprod(SubSeq(a, 1, Len(a) - 1))
       IN  Append(p, FMul(p[Len(p)], a[Len(a)]))

\* F.pad(a[:-1], (1, 0), value=1.0)
PadPrev(a) == <<One>> \o (IF Len(a) = 0 THEN << >> ELSE SubSeq(a, 1, Len(a) - 1))

NoDiffusion == [state |-> "none"]
\* linspace refuses a negative number of steps; nothing else is checked
CtorRaises(timesteps, beta_start, beta_end) == timesteps < 0

GaussianDiffusion(timesteps, beta_start, beta_end) ==
  LET betas == linspace(beta_start, beta_end, timesteps)
      alphas == SRSub(One, betas)
      alphas_cumprod == cumprod(alphas)
      alphas_cumprod_prev == PadPrev(alphas_cumprod)
  IN  [state |-> "built",
       timesteps |-> timesteps,
       beta_start |-> beta_start,
       beta_end |-> beta_end,
       betas |-> betas,
       alphas |-> alphas,
       alphas_cumprod |-> alphas_cumprod,
       alphas_cumprod_prev |-> alphas_cumprod_prev,
       sqrt_alphas_cumprod |-> TSqrt(alphas_cumprod),
       sqrt_one_minus_alphas_cumprod |-> TSqrt(SRSub(One, alphas_cumprod)),
       posterior_variance |->
         TDiv(TMul(betas, SRSub(One, alphas_cumprod_prev)),
              SRSub(One, alphas_cumprod)),
       sqrt_recip_alphas |-> TSqrt(SRDiv(One, alphas))]

\* ------------------------------------------------------------- network
\* The denoising network is any callable model(x, t): what it computes per
\* element (fn) and the batch size of what it returns (shp).
NetFns == {"zero", "ident"}
NetShapes == {"same", "one", "extra"}
Nets == [fn : NetFns, shp : NetShapes]

NetLen(m, n) == IF m.shp = "same" THEN n ELSE IF m.shp = "one" THEN 1 ELSE n + 1
Net(m, x, t) ==
  [i \in 1..NetLen(m, Len(x)) |->
     IF m.fn = "ident" /\ i <= Len(x) THEN x[i] ELSE Zero]

\* ---------------------------------------------------------- operations
\* What an operation hands back: a tensor and the generator state it left,
\* or the exception it raised (ok = FALSE).
Raised(r) == [ok |-> FALSE, out |-> << >>, rng |-> r, drew |-> 0]
Returned(x, r, n) == [ok |-> TRUE, out |-> x, rng |-> r, drew |-> n]

q_sample(d, x_0, t, noise) ==
  TAdd(TMul(Gather(d.sqrt_alphas_cumprod, t), x_0),
       TMul(Gather(d.sqrt_one_minus_alphas_cumprod, t), noise))

\* F.mse_loss(input, target): the mean of the squared differences of the two
\* tensors broadcast against each other
RECURSIVE FSum(_)
FSum(a) == IF Len(a) = 0 THEN Zero ELSE FAdd(a[1], FSum(Tail(a)))
mse_loss(input, target) ==
  LET diff == TSub(input, target)
  IN  FDiv(FSum(TMul(diff, diff)), F(Len(diff) * UNIT))

\* noiseGiven = FALSE is noise=None: fresh noise is drawn
p_losses(d, m, x_0, t, noiseGiven, noise, r) ==
  LET drawn == randn(Len(x_0), r)
      eps == IF noiseGiven THEN noise ELSE drawn.val
      r1 == IF noiseGiven THEN r ELSE drawn.rng
      x_t == q_sample(d, x_0, t, eps)
      predicted_noise == Net(m, x_t, t)
  IN  IF ~Broadcastable(Len(predicted_noise), Len(eps)) THEN Raised(r1)
      ELSE Returned(<<mse_loss(predicted_noise, eps)>>, r1,
                    IF noiseGiven THEN 0 ELSE 1)

\* the posterior mean of p_sample, given the network's output
model_mean(d, x_t, t, predicted_noise) ==
  TMul(Gather(d.sqrt_recip_alphas, t),
       TSub(x_t, TDiv(TMul(Gather(d.betas, t), predicted_noise),
                      Gather(d.sqrt_one_minus_alphas_cumprod, t))))

\* p_sample without the branch on t[0] == 0
FinalStepNever(t) == FALSE

\* whether p_sample takes the branch without noise
FinalStep(t) == t[1] = 0

p_sample(d, m, x_t, t, r) ==
  LET predicted_noise == Net(m, x_t, t)
      mean == model_mean(d, x_t, t, predicted_noise)
      noise == randn(Len(x_t), r)
  IN  IF ~Broadcastable(Len(t), Len(predicted_noise))
         \/ ~Broadcastable(Len(x_t), BroadcastLen(Len(t), Len(predicted_noise)))
      THEN Raised(r)
      ELSE IF FinalStep(t) THEN Returned(mean, r, 0)
      ELSE IF ~Broadcastable(Len(mean), Len(noise.val)) THEN Raised(noise.rng)
      ELSE Returned(TAdd(mean, TMul(TSqrt(Gather(d.posterior_variance, t)),
                                    noise.val)),
                    noise.rng, 1)

\* list(range(0, stop, step)) for step /= 0
RECURSIVE Range(_, _, _)
Range(from, stop, step) ==
  IF (step > 0 /\ from >= stop) \/ (step < 0 /\ from <= stop) THEN << >>
  ELSE <<from>> \o Range(from + step, stop, step)

Reversed(s) == [i \in 1..Len(s) |-> s[Len(s) + 1 - i]]

\* Python's //, which floors (as \div does)
FloorDiv(a, b) == a \div b

\* lines 147-149 of sample_ddim: the sub-schedule, or the exception of a zero
\* divisor (steps = 0) or of a zero range step (steps > timesteps)
step_size(timesteps, steps) == FloorDiv(timesteps, steps)
ScheduleRaises(timesteps, steps) ==
  steps = 0 \/ step_size(timesteps, steps) = 0
\* the sub-schedule left in ascending order
DdimTimestepsAscending(timesteps, steps) ==
  Range(0, timesteps, step_size(timesteps, steps))
DdimTimesteps(timesteps, steps) ==
  Reversed(Range(0, timesteps, step_size(timesteps, steps)))

\* sample's loop run upwards from 0
SampleTimestepsAscending(timesteps) == Range(0, timesteps, 1)

\* the timesteps of sample's loop: reversed(range(self.timesteps))
SampleTimesteps(timesteps) == Reversed(Range(0, timesteps, 1))

\* alpha_cumprod_prev taken from the schedule's own shifted array, whose
\* entry for the step's timestep is not the sub-schedule's next timestep
NextAlphaCumprodShifted(d, ts, i) == d.alphas_cumprod_prev[ts[i] + 1]

\* alpha_cumprod_prev of step i (1-based) of the sub-schedule ts
NextAlphaCumprod(d, ts, i) ==
  IF i + 1 <= Len(ts) THEN d.alphas_cumprod[ts[i + 1] + 1] ELSE One

\* torch.clamp left out
clamp_none(a, lo, hi) == a

clamp(a, lo, hi) == [i \in 1..Len(a) |-> FClamp(a[i], lo, hi)]

\* lines 155-178 with the step's timestep t and alpha_cumprod_prev given
ddim_update_with(d, m, x, batch_size, t, alpha_cumprod_prev) ==
  LET t_batch == Full(batch_size, t)
      predicted_noise == Net(m, x, t_batch)
      alpha_cumprod == d.alphas_cumprod[t + 1]
      pred_x0 == clamp(SRDivT(TSub(x, SMul(FSqrt(FSub(One, alpha_cumprod)),
                                           predicted_noise)),
                              FSqrt(alpha_cumprod)),
                       -UNIT, UNIT)
      dir_xt == SMul(FSqrt(FSub(One, alpha_cumprod_prev)), predicted_noise)
  IN  TAdd(SMul(FSqrt(alpha_cumprod_prev), pred_x0), dir_xt)

\* the tensor one iteration of sample_ddim's loop leaves in x (lines 155-178)
ddim_update(d, m, x, batch_size, ts, i) ==
  ddim_update_with(d, m, x, batch_size, ts[i], NextAlphaCumprod(d, ts, i))

\* a sample_ddim step that injects noise the way p_sample does
ddim_step_noisy(d, m, x, batch_size, ts, i, r) ==
  IF ~Broadcastable(Len(x), NetLen(m, Len(x))) THEN Raised(r)
  ELSE Returned(TAdd(ddim_update(d, m, x, batch_size, ts, i),
                     randn(Len(x), r).val),
                randn(Len(x), r).rng, 1)

\* one iteration of sample_ddim's loop: the generator is not touched
ddim_step(d, m, x, batch_size, ts, i, r) ==
  IF ~Broadcastable(Len(x), Len(Net(m, x, Full(batch_size, ts[i])))) THEN Raised(r)
  ELSE Returned(ddim_update(d, m, x, batch_size, ts, i), r, 0)

\* --------------------------------------------------------------- state
VARIABLES
  diffusion,   \* the GaussianDiffusion object, once constructed
  model,       \* the denoising network handed to every operation
  rng,         \* the state of torch's process-wide random generator
  calls,       \* per thread: the sampling call it is in, and where
  loss         \* what the last p_losses call handed back

vars == <<diffusion, model, rng, calls, loss>>

Threads == {1, 2}
BetaVals == {F(UNIT \div 5), F((3 * UNIT) \div 5), F((6 * UNIT) \div 5)}
Seeds == {NoSeed} \cup 0..MaxSeed
StepCounts == (-1)..(MaxT + 1)

Idle == [op |-> "none", pc |-> "idle", seed |-> NoSeed, batch_size |-> 0,
         steps |-> 0, x |-> << >>, timesteps |-> << >>, i |-> 0,
         evals |-> << >>, draws |-> 0, overlapped |-> FALSE]
NoLoss == [ok |-> TRUE, out |-> << >>, rng |-> 0, drew |-> 0]

\* a thread is not inside a sampling call
AtRest(p) == calls[p].pc \in {"idle", "done", "error"}
\* The training program calls p_losses and the generation program
\* (generate_raccoon.py) makes one sampling call per thread: a process is one
\* or the other.
Generating == loss = NoLoss
Training == \A p \in Threads : calls[p].pc = "idle"

\* a thread is inside a sampling call
Running(p) == calls[p].pc \in {"init", "loop"}

\* thread p enters the call c; overlapped records that two calls were in
\* progress at the same time
Enter(p, c) ==
  [q \in Threads |->
     IF q = p
     THEN [c EXCEPT !.overlapped = \E o \in Threads \ {p} : Running(o)]
     ELSE IF Running(q) THEN [calls[q] EXCEPT !.overlapped = TRUE]
     ELSE calls[q]]

\* a call that never seeds the generator
SeedRngSkipped(seed, r) == r

\* if seed is not None: torch.manual_seed(seed)
SeedRng(seed, r) == IF seed # NoSeed THEN manual_seed(seed) ELSE r

Init ==
  /\ diffusion = NoDiffusion
  /\ model \in Nets
  /\ rng \in RngStates
  /\ calls = [p \in Threads |-> Idle]
  /\ loss = NoLoss

\* GaussianDiffusion(timesteps, beta_start, beta_end)
Construct(timesteps, beta_start, beta_end) ==
  /\ diffusion.state = "none"
  /\ diffusion' = IF CtorRaises(timesteps, beta_start, beta_end)
                  THEN [state |-> "raised"]
                  ELSE GaussianDiffusion(timesteps, beta_start, beta_end)
  /\ UNCHANGED <<model, rng, calls, loss>>

\* sample(model, shape, seed), lines 110-114
Sample(p, batch_size, seed) ==
  /\ diffusion.state = "built"
  /\ Generating
  /\ calls[p].pc = "idle"
  /\ rng' = SeedRng(seed, rng)
  /\ calls' = Enter(p,
       [Idle EXCEPT !.op = "sample", !.pc = "init", !.seed = seed,
                    !.batch_size = batch_size])
  /\ UNCHANGED <<diffusion, model, loss>>

\* sample_ddim(model, shape, seed, steps), lines 140-149
SampleDdim(p, batch_size, seed, steps) ==
  /\ diffusion.state = "built"
  /\ Generating
  /\ calls[p].pc = "idle"
  /\ rng' = SeedRng(seed, rng)
  /\ calls' = Enter(p,
       IF ScheduleRaises(diffusion.timesteps, steps)
       THEN [Idle EXCEPT !.op = "sample_ddim", !.pc = "error", !.seed = seed,
                         !.batch_size = batch_size, !.steps = steps]
       ELSE [Idle EXCEPT !.op = "sample_ddim", !.pc = "init", !.seed = seed,
                         !.batch_size = batch_size, !.steps = steps,
                         !.timesteps = DdimTimesteps(diffusion.timesteps, steps)])
  /\ UNCHANGED <<diffusion, model, loss>>

\* x = torch.randn(shape), and the loop's iterable; a loop over nothing
\* falls through to return x
InitNoise(p) ==
  /\ calls[p].pc = "init"
  /\ LET c == calls[p]
         noise == randn(c.batch_size, rng)
         ts == IF c.op = "sample" THEN SampleTimesteps(diffusion.timesteps)
               ELSE c.timesteps
     IN  /\ rng' = noise.rng
         /\ calls' = [calls EXCEPT ![p] =
              [c EXCEPT !.x = noise.val, !.timesteps = ts, !.i = 1,
                        !.draws = c.draws + 1,
                        !.pc = IF Len(ts) = 0 THEN "done" ELSE "loop"]]
  /\ UNCHANGED <<diffusion, model, loss>>

\* the call record after one loop iteration that handed back res
AfterStep(c, res) ==
  IF ~res.ok
  THEN [c EXCEPT !.pc = "error", !.x = << >>,
                 !.evals = Append(c.evals, c.timesteps[c.i])]
  ELSE [c EXCEPT !.x = res.out, !.i = c.i + 1,
                 !.evals = Append(c.evals, c.timesteps[c.i]),
                 !.draws = c.draws + res.drew,
                 !.pc = IF c.i = Len(c.timesteps) THEN "done" ELSE "loop"]

\* one iteration of sample's loop, lines 120-122
SampleStep(p) ==
  /\ calls[p].pc = "loop"
  /\ calls[p].op = "sample"
  /\ LET c == calls[p]
         t_batch == Full(c.batch_size, c.timesteps[c.i])
         res == p_sample(diffusion, model, c.x, t_batch, rng)
     IN  /\ rng' = res.rng
         /\ calls' = [calls EXCEPT ![p] = AfterStep(c, res)]
  /\ UNCHANGED <<diffusion, model, loss>>

\* one iteration of sample_ddim's loop, lines 154-178
DdimStep(p) ==
  /\ calls[p].pc = "loop"
  /\ calls[p].op = "sample_ddim"
  /\ LET c == calls[p]
         res == ddim_step(diffusion, model, c.x, c.batch_size, c.timesteps,
                          c.i, rng)
     IN  /\ rng' = res.rng
         /\ calls' = [calls EXCEPT ![p] = AfterStep(c, res)]
  /\ UNCHANGED <<diffusion, model, loss>>

\* p_losses(model, x_0, t, noise)
PLosses(batch_size, v, t, noiseGiven) ==
  /\ diffusion.state = "built"
  /\ t < diffusion.timesteps
  /\ Training
  /\ LET res == p_losses(diffusion, model, Full(batch_size, F(v)),
                         Full(batch_size, t), noiseGiven,
                         Full(batch_size, Zero), rng)
     IN  /\ loss' = res
         /\ rng' = res.rng
  /\ UNCHANGED <<diffusion, model, calls>>

\* one thread: the program as generate_raccoon.py runs it
Next ==
  \/ \E T \in (-1)..MaxT, bs \in BetaVals, be \in BetaVals : Construct(T, bs, be)
  \/ \E B \in 1..MaxB, seed \in Seeds : Sample(1, B, seed)
  \/ \E B \in 1..MaxB, seed \in Seeds, S \in StepCounts : SampleDdim(1, B, seed, S)
  \/ InitNoise(1)
  \/ SampleStep(1)
  \/ DdimStep(1)
  \/ \E B \in 1..MaxB, v \in {0, UNIT}, t \in 0..(MaxT - 1), g \in BOOLEAN :
       PLosses(B, v, t, g)

Spec == Init /\ [][Next]_vars

\* Schedule construction alone, from configurations that include a
\* beta_start below the resolution of float32 at 1.0.
BetaTiny == Tiny(UNIT)
NextSchedule ==
  \E T \in (-1)..MaxT, bs \in BetaVals \cup {BetaTiny}, be \in BetaVals \cup {BetaTiny} :
    Construct(T, bs, be)

SpecSchedule == Init /\ [][NextSchedule]_vars

\* Two threads of one generation process, on a schedule built from a valid
\* configuration and a network that honours the shape contract.
\* a < b for two finite floats
FLess(a, b) ==
  IF a.c = b.c THEN a.v < b.v
  ELSE IF a.c = "tiny" THEN (IF b.v = 0 THEN a.v < 0 ELSE b.v > 0)
  ELSE (IF a.v = 0 THEN b.v > 0 ELSE a.v < 0)

\* T >= 1 and 0 < beta_start < beta_end < 1
ValidConfig(timesteps, beta_start, beta_end) ==
  /\ timesteps >= 1
  /\ FLess(Zero, beta_start) /\ FLess(beta_start, beta_end) /\ FLess(beta_end, One)

InitTwo ==
  /\ diffusion \in {GaussianDiffusion(cfg[1], cfg[2], cfg[3]) :
                      cfg \in {k \in (1..MaxTTwo) \X BetaVals \X BetaVals :
                                 ValidConfig(k[1], k[2], k[3])}}
  /\ model \in {m \in Nets : m.shp = "same"}
  /\ rng \in RngStates
  /\ calls = [p \in Threads |-> Idle]
  /\ loss = NoLoss

\* shape=(1, 3, 64, 64), as generate_raccoon.py calls sample_ddim
BatchOfOne == 1

\* thread 1 names the thread that calls first
MayEnter(p) == p = 1 \/ calls[1].pc # "idle"

NextTwo ==
  \E p \in Threads :
    \/ \E seed \in Seeds : MayEnter(p) /\ Sample(p, BatchOfOne, seed)
    \/ \E seed \in Seeds, S \in 1..MaxTTwo :
         MayEnter(p) /\ SampleDdim(p, BatchOfOne, seed, S)
    \/ InitNoise(p)
    \/ SampleStep(p)
    \/ DdimStep(p)

SpecTwo == InitTwo /\ [][NextTwo]_vars

\* -------------------------------------------------------------- claims
\* the call of the generation program's one thread
Call == calls[1]
Descending(T) == [k \in 1..T |-> T - k]
IsPrefix(a, b) == Len(a) <= Len(b) /\ a = SubSeq(b, 1, Len(a))

\* C1: for T >= 1, sample evaluates the network at T-1, T-2, ..., 0 in that
\* order, T times by the time it returns, and every step's input is what the
\* previous step (or the initial noise) left in x.
C1_SampleOrder ==
  /\ [](Call.op = "sample" /\ diffusion.timesteps >= 1 =>
          /\ IsPrefix(Call.evals, Descending(diffusion.timesteps))
          /\ (Call.pc = "done" => Call.evals = Descending(diffusion.timesteps))
          /\ (Call.pc = "loop" => Call.i = Len(Call.evals) + 1))
  /\ [][Call.op = "sample" /\ Call.pc = "loop" /\ Call'.pc # "error" =>
          Call'.x = p_sample(diffusion, model, Call.x,
                             Full(Call.batch_size,
                                  diffusion.timesteps - 1 - Len(Call.evals)),
                             rng).out]_vars

C1_Witness ==
  /\ Call.op = "sample" /\ Call.pc = "done"
  /\ ValidConfig(diffusion.timesteps, diffusion.beta_start, diffusion.beta_end)
  /\ diffusion.timesteps = MaxT /\ Call.evals = Descending(MaxT)

\* 1 <= S <= T
ValidSteps(c) == 1 <= c.steps /\ c.steps <= diffusion.timesteps

\* C2: for 1 <= S <= T the sub-schedule of sample_ddim is strictly
\* descending, lies in [0, T-1] and ends in 0.
C2_SubScheduleOrdered ==
  Call.op = "sample_ddim" /\ ValidSteps(Call) =>
    /\ Call.pc # "error" \/ Call.evals # << >>
    /\ LET ts == Call.timesteps
       IN  /\ Len(ts) >= 1
           /\ \A k \in 1..Len(ts) : 0 <= ts[k] /\ ts[k] <= diffusion.timesteps - 1
           /\ \A k \in 1..(Len(ts) - 1) : ts[k] > ts[k + 1]
           /\ ts[Len(ts)] = 0

C2_Witness ==
  /\ Call.op = "sample_ddim" /\ Call.pc = "init"
  /\ Call.steps = 2 /\ diffusion.timesteps = 3
  /\ Call.timesteps = <<2, 1, 0>>

\* C3: for 1 <= S <= T the sub-schedule holds exactly S indices and the
\* network is evaluated exactly S times.
C3_ExactlySSteps ==
  Call.op = "sample_ddim" /\ ValidSteps(Call) =>
    /\ (Call.pc \in {"init", "loop", "done"} => Len(Call.timesteps) = Call.steps)
    /\ (Call.pc = "done" => Len(Call.evals) = Call.steps)

\* C4: a step count outside [1, T] ends the call in an error before any
\* noise is drawn or the network evaluated.
C4_BadStepsRaise ==
  Call.op = "sample_ddim" /\ ~ValidSteps(Call) =>
    Call.pc = "error" /\ Call.draws = 0 /\ Call.evals = << >>

\* C6: sample_ddim draws from the generator exactly once, for the initial
\* sample, and no iteration of its loop draws from or changes the generator.
C6_DdimDrawsOnce ==
  /\ [](Call.op = "sample_ddim" =>
          /\ Call.draws = (IF Call.pc \in {"loop", "done"} \/ Call.evals # << >>
                           THEN 1 ELSE 0))
  /\ [][Call.op = "sample_ddim" /\ Call.pc = "loop" => rng' = rng]_vars

C6_Witness ==
  /\ Call.op = "sample_ddim" /\ Call.pc = "done"
  /\ ValidConfig(diffusion.timesteps, diffusion.beta_start, diffusion.beta_end)
  /\ Len(Call.evals) >= 2 /\ Call.draws = 1

\* C8: p_sample on a batch of zeros hands back the posterior mean whatever
\* the generator state, and leaves the generator alone; on a batch of some
\* t > 0 it draws once and adds the noise scaled by sqrt(posterior_variance[t]).
C8_FinalStepNoNoise ==
  Call.op = "sample" /\ Call.pc = "loop" =>
    LET t_batch == Full(Call.batch_size, Call.timesteps[Call.i])
        predicted_noise == Net(model, Call.x, t_batch)
        mean == model_mean(diffusion, Call.x, t_batch, predicted_noise)
    IN  \A r \in RngStates :
          LET res == p_sample(diffusion, model, Call.x, t_batch, r)
          IN  res.ok =>
                IF Call.timesteps[Call.i] = 0
                THEN /\ res.out = mean
                     /\ res.rng = r /\ res.drew = 0
                     /\ \A r2 \in RngStates :
                          p_sample(diffusion, model, Call.x, t_batch, r2).out
                            = res.out
                ELSE /\ res.drew = 1
                     /\ res.rng = Advance(r, Len(Call.x))
                     /\ res.out =
                          TAdd(mean,
                               TMul(TSqrt(Gather(diffusion.posterior_variance,
                                                 t_batch)),
                                    randn(Len(Call.x), r).val))

\* a sample call whose last step (t = 0) and a noisy step (t > 0) both ran
C8_Witness ==
  /\ Call.op = "sample" /\ Call.pc = "done"
  /\ Len(Call.evals) >= 2
  /\ Call.draws = Len(Call.evals)
  /\ ValidConfig(diffusion.timesteps, diffusion.beta_start, diffusion.beta_end)
  /\ model.shp = "same"

\* C9: no schedule object is built from an invalid configuration, and no
\* sampling call starts on one.
C9_InvalidConfigRaises ==
  /\ diffusion.state = "built" =>
       ValidConfig(diffusion.timesteps, diffusion.beta_start, diffusion.beta_end)
  /\ Call.op # "none" =>
       ValidConfig(diffusion.timesteps, diffusion.beta_start, diffusion.beta_end)

\* the network's output has another shape than the batch it was given
WrongShape(n) == NetLen(model, n) # n

\* C10: once the network has handed back a tensor of the wrong shape, the
\* operation ends in an error at that evaluation.
C10_WrongShapeRaises ==
  /\ Call.op # "none" /\ WrongShape(Call.batch_size) /\ Call.evals # << >> =>
       Call.pc = "error" /\ Len(Call.evals) = 1
  /\ loss # NoLoss /\ model.shp = "extra" => ~loss.ok

\* --------------------------------------------- claims about two calls
\* What a call hands back when no other call runs beside it: the entry, the
\* initial noise and the loop, from generator state r0.
RECURSIVE RunLoop(_, _, _, _, _, _)
RunLoop(op, batch_size, ts, i, x, r) ==
  IF i > Len(ts) THEN x
  ELSE LET res == IF op = "sample"
                  THEN p_sample(diffusion, model, x, Full(batch_size, ts[i]), r)
                  ELSE ddim_step(diffusion, model, x, batch_size, ts, i, r)
       IN  IF res.ok THEN RunLoop(op, batch_size, ts, i + 1, res.out, res.rng)
           ELSE << >>

RunAlone(c, r0) ==
  LET noise == randn(c.batch_size, SeedRng(c.seed, r0))
      ts == IF c.op = "sample" THEN SampleTimesteps(diffusion.timesteps)
            ELSE DdimTimesteps(diffusion.timesteps, c.steps)
  IN  RunLoop(c.op, c.batch_size, ts, 1, noise.val, noise.rng)

SameArguments(c, d) ==
  /\ c.op = d.op /\ c.seed = d.seed
  /\ c.batch_size = d.batch_size /\ c.steps = d.steps

\* C5: two calls of the same operation run one after the other with the same
\* seed, shape and step count hand back the same tensor, whatever state the
\* generator was in before each.
C5_SeededCallsRepeat ==
  /\ calls[1].pc = "done" /\ calls[2].pc = "done"
  /\ ~calls[1].overlapped /\ ~calls[2].overlapped
  /\ SameArguments(calls[1], calls[2])
  /\ calls[1].seed # NoSeed
  => calls[1].x = calls[2].x

\* the second call started from another generator state than the first did
\* (the first left the generator advanced), and a sample call drew in its loop
C5_Witness ==
  /\ calls[1].pc = "done" /\ calls[2].pc = "done"
  /\ ~calls[1].overlapped /\ ~calls[2].overlapped
  /\ SameArguments(calls[1], calls[2])
  /\ calls[1].seed # NoSeed
  /\ calls[1].op = "sample" /\ calls[1].draws >= 2
  /\ rng # manual_seed(calls[1].seed)
  /\ calls[1].x # RunAlone([calls[1] EXCEPT !.seed = NoSeed], rng)

\* C7: two calls with different seeds whose steps interleave each hand back
\* what they hand back when run alone with their seed.
C7_ConcurrentCallsIndependent ==
  /\ calls[1].pc = "done" /\ calls[2].pc = "done"
  /\ calls[1].seed # NoSeed /\ calls[2].seed # NoSeed
  /\ calls[1].seed # calls[2].seed
  => \A p \in Threads : calls[p].x = RunAlone(calls[p], rng)

\* ------------------------------------- claims about the sample_ddim step
\* the cumulative alpha after step i of the sub-schedule ts: that of the
\* next, smaller timestep, and 1.0 after the last
AlphaAfter(ts, i) ==
  IF i < Len(ts) THEN diffusion.alphas_cumprod[ts[i + 1] + 1] ELSE One

\* x scaled by the factor of step i, sqrt(alphacum[t_{i+1}]) / sqrt(alphacum[t_i]),
\* with (clamped) or without the clamp of x / sqrt(alphacum[t_i]) to [-1, 1]
ChainStep(x, ts, i, clamped) ==
  [k \in 1..Len(x) |->
     LET x0 == FDiv(x[k], FSqrt(diffusion.alphas_cumprod[ts[i] + 1]))
     IN  FMul(FSqrt(AlphaAfter(ts, i)),
              IF clamped THEN FClamp(x0, -UNIT, UNIT) ELSE x0)]

\* the first n factors applied to x
RECURSIVE Chain(_, _, _, _)
Chain(x, ts, n, clamped) ==
  IF n = 0 THEN x ELSE ChainStep(Chain(x, ts, n - 1, clamped), ts, n, clamped)

\* the initial Gaussian sample of a seeded call
InitialSample(c) == randn(c.batch_size, manual_seed(c.seed)).val

\* a seeded sample_ddim call on a valid schedule with the stub network that
\* returns zero noise of the right shape
ZeroNoiseCall ==
  /\ Call.op = "sample_ddim" /\ Call.seed # NoSeed
  /\ model.fn = "zero" /\ ~WrongShape(Call.batch_size)
  /\ ValidConfig(diffusion.timesteps, diffusion.beta_start, diffusion.beta_end)

\* C11 as stated: with the zero-noise stub sample_ddim returns the initial
\* sample multiplied only by the chain of factors
\* sqrt(alphacum[t_{i+1}]) / sqrt(alphacum[t_i]).
C11_ZeroNoiseClosedForm ==
  ZeroNoiseCall /\ Call.pc = "done" =>
    Call.x = Chain(InitialSample(Call), Call.timesteps, Len(Call.timesteps), FALSE)

\* C11 as amended: with the zero-noise stub, after n steps x is the initial
\* sample taken through the first n maps
\* x -> sqrt(alphacum[t_{i+1}]) * clamp(x / sqrt(alphacum[t_i]), -1, 1),
\* and the call returns it after the last.
C11_ZeroNoiseClampedChain ==
  ZeroNoiseCall /\ Call.pc \in {"loop", "done"} =>
    /\ Call.x = Chain(InitialSample(Call), Call.timesteps, Len(Call.evals), TRUE)
    /\ Call.pc = "done" => Len(Call.evals) = Len(Call.timesteps)

\* a returned call of two or more steps in which the clamp cut an element
C11_Witness ==
  /\ ZeroNoiseCall /\ Call.pc = "done"
  /\ Len(Call.evals) >= 2
  /\ Call.x # Chain(InitialSample(Call), Call.timesteps, Len(Call.timesteps), FALSE)
  /\ \E k \in 1..Len(Call.x) : Call.x[k] # Zero

\* C12: step i of sample_ddim uses the cumulative alpha of the next, smaller
\* timestep of the sub-schedule, and exactly 1.0 in the last step; with S = 1
\* the call does not raise and makes a single step.
C12_NextCumulativeAlpha ==
  /\ [](Call.op = "sample_ddim" =>
          /\ \A k \in 1..(Len(Call.timesteps) - 1) :
               Call.timesteps[k + 1] < Call.timesteps[k]
          /\ (Call.steps = 1 /\ diffusion.timesteps >= 1
              /\ ~WrongShape(Call.batch_size) =>
                /\ Call.pc # "error"
                /\ Call.timesteps = <<0>>
                /\ (Call.pc = "done" => Call.evals = <<0>>)))
  /\ [][Call.op = "sample_ddim" /\ Call.pc = "loop" /\ Call'.pc # "error" =>
          Call'.x = ddim_update_with(diffusion, model, Call.x, Call.batch_size,
                                     Call.timesteps[Call.i],
                                     AlphaAfter(Call.timesteps, Call.i))]_vars

\* a returned call over a sub-schedule of stride 2: a step to the next
\* timestep of the sub-schedule and a last step both ran
C12_Witness ==
  /\ Call.op = "sample_ddim" /\ Call.pc = "done"
  /\ ValidConfig(diffusion.timesteps, diffusion.beta_start, diffusion.beta_end)
  /\ Call.evals = <<2, 0>>
  /\ \E k \in 1..Len(Call.x) : Call.x[k].c = "num" /\ Call.x[k].v # 0

\* a finite value within [-1, 1]
InUnitRange(a) == a.c = "num" /\ -UNIT <= a.v /\ a.v <= UNIT

\* C13: whenever sample_ddim returns, on a valid schedule and with a network
\* whose output has the input's shape, every element of the returned tensor
\* lies in [-1, 1].
C13_ReturnedInRange ==
  /\ Call.op = "sample_ddim" /\ Call.pc = "done"
  /\ ValidConfig(diffusion.timesteps, diffusion.beta_start, diffusion.beta_end)
  /\ ~WrongShape(Call.batch_size)
  => \A k \in 1..Len(Call.x) : InUnitRange(Call.x[k])

\* ------------------------------------- claims about the schedule's arrays
Finite(a) == a.c \in {"num", "tiny"}

\* C14: for every valid configuration no denominator 1 - alphas_cumprod[i]
\* is zero, posterior_variance has length T, its first entry is exactly 0
\* and every entry is a finite value >= 0.
C14_PosteriorVarianceFinite ==
  /\ diffusion.state = "built"
  /\ ValidConfig(diffusion.timesteps, diffusion.beta_start, diffusion.beta_end)
  => /\ \A i \in 1..diffusion.timesteps :
          FSub(One, diffusion.alphas_cumprod[i]) # Zero
     /\ Len(diffusion.posterior_variance) = diffusion.timesteps
     /\ diffusion.posterior_variance[1] = Zero
     /\ \A i \in 1..diffusion.timesteps :
          /\ Finite(diffusion.posterior_variance[i])
          /\ diffusion.posterior_variance[i].v >= 0

====
